---------------------------- MODULE Spec2Model ----------------------------
(***************************************************************************)
(* InstallCommand.run of dnf/cli/commands/install.py as a state machine.   *)
(*                                                                         *)
(* One run of the command is modelled: the request (self.opts and          *)
(* self.base.conf.strict) is fixed by Init, pc is the position of run in   *)
(* its body, and every call into the engine (self.base, self.cli) is      *)
(* recorded in calls, in order, with its arguments and with its outcome    *)
(* (return value or the exception the caller handles), which the engine    *)
(* chooses.  The engine answers the same way when it is asked twice about  *)
(* the same target within one run.  opts.assumeyes, the progress callback  *)
(* and conf.group_package_types are passed through unread and are left out.*)
(***************************************************************************)
EXTENDS Naturals, Sequences, FiniteSets, TLC

VARIABLES
    command,            \* self.opts.command: list of command tokens
    pkg_specs,          \* self.opts.pkg_specs
    grp_specs,          \* self.opts.grp_specs (without the '@')
    filenames,          \* self.opts.filenames
    strict,             \* self.base.conf.strict
    pc,                 \* position of run
    nevra_forms,        \* local of run (line 72)
    skipped_grp_specs,  \* local of run (lines 80-82)
    err_pkgs,           \* local of run (lines 69, 89)
    errs,               \* local of run (lines 70, 99)
    remote_pkgs,        \* what is left of the iteration of line 126
    files_err_pkgs,     \* err_pkgs local to _install_files (line 124)
    spec_idx,           \* position of the iteration of line 150
    packages_errs,      \* errs local to _install_packages (line 148)
    calls,              \* engine calls made so far, in order
    goal,               \* what the engine has queued for the transaction
    log,                \* logger records emitted so far
    raised              \* the exception run ended with, NoError if none

request == <<command, pkg_specs, grp_specs, filenames, strict>>
locals  == <<nevra_forms, skipped_grp_specs, err_pkgs, errs,
             remote_pkgs, files_err_pkgs, spec_idx, packages_errs>>
engine  == <<calls, goal, log>>
vars    == <<request, locals, engine, pc, raised>>

(***************************************************************************)
(* Bounds of the model and the universes requests are drawn from.          *)
(***************************************************************************)
MaxPkgSpecs  == 2
MaxGrpSpecs  == 2
MaxFilenames == 1

PkgSpecNames == {"vim", "doesnotexist123"}
GrpSpecNames == {"devel", "web"}
FileNames    == {"a.rpm", "b.rpm"}

\* Exceptions env_group_install can raise that `except dnf.exceptions.Error`
\* of line 143 catches.
GroupErrors  == {"CompsError", "MarkingError"}

SeqsUpTo(S, n) == UNION {[1..k -> S] : k \in 0..n}

Range(s) == {s[i] : i \in 1..Len(s)}

(***************************************************************************)
(* Class attributes (lines 41-45).                                         *)
(***************************************************************************)
nevra_forms_keys == {"install-n", "install-na", "install-nevra"}

nevra_forms_of(cmd) ==
    CASE cmd = "install-n"     -> "FORM_NAME"
      [] cmd = "install-na"    -> "FORM_NA"
      [] cmd = "install-nevra" -> "FORM_NEVRA"

aliases == {"install", "localinstall"} \cup nevra_forms_keys

(***************************************************************************)
(* Pure helpers.                                                           *)
(***************************************************************************)
\* _get_nevra_forms_from_command (lines 106-110)
get_nevra_forms_from_command(cmd) ==
    LET hits == SelectSeq(cmd, LAMBDA c : c \in nevra_forms_keys)
    IN  [i \in 1..Len(hits) |-> nevra_forms_of(hits[i])]

\* ' '.join(errs) (line 103)
RECURSIVE JoinSpace(_)
JoinSpace(s) ==
    IF s = <<>> THEN ""
    ELSE IF Len(s) = 1 THEN s[1]
    ELSE s[1] \o " " \o JoinSpace(Tail(s))

\* _log_not_valid_rpm_file_paths (lines 112-116)
log_not_valid_rpm_file_paths(grps) ==
    LET group_names == [i \in 1..Len(grps) |-> "@" \o grps[i]]
        chained     == pkg_specs \o group_names
    IN  [i \in 1..Len(chained) |->
            <<"info", "Not a valid rpm file path: %s", chained[i]>>]

\* _inform_not_a_valid_combination (lines 118-121)
inform_not_a_valid_combination(forms) ==
    [i \in 1..Len(forms) |-> <<"warning", "Not a valid form: %s", forms[i]>>]

NoError == [type |-> "none"]

NothingToDo == [type |-> "Error", msg |-> "Nothing to do."]

\* The exception of lines 102-104
PackagesNotAvailable(e, p) ==
    [type     |-> "PackagesNotAvailableError",
     msg      |-> "Unable to find a match",
     pkg_spec |-> JoinSpace(e),
     packages |-> p]

(***************************************************************************)
(* Conditions of run, one per test in the source.                          *)
(***************************************************************************)
\* self.opts.command == ['localinstall'] (lines 75, 81, 95, 98)
IsLocalinstall == command = <<"localinstall">>

\* line 75 testing the package specs only
LocalinstallWithSpecs_PkgOnly == IsLocalinstall /\ pkg_specs # <<>>

\* line 75
LocalinstallWithSpecs ==
    IsLocalinstall /\ (grp_specs # <<>> \/ pkg_specs # <<>>)

\* line 77
RaiseOnLocalinstall == strict

\* line 86 raising whatever the strictness
RaiseOnFilesWithForm_Always == TRUE

\* line 86
RaiseOnFilesWithForm == strict

\* line 93 raising whatever the strictness
RaiseOnGroupsWithForm_Always == TRUE

\* line 93
RaiseOnGroupsWithForm == strict

\* line 144 re-raising whatever the strictness
ReraiseGroupError_Always == TRUE

\* line 144
ReraiseGroupError == strict

\* line 81
ModulesApply == grp_specs # <<>> /\ ~IsLocalinstall

\* line 84 with the test of the forms inverted
FilesWithForm_NoForm == filenames # <<>> /\ nevra_forms = <<>>

\* line 84
FilesWithForm == filenames # <<>> /\ nevra_forms # <<>>

\* line 91 testing the request's group specs instead of the skipped ones
GroupsWithForm_AllGroups == grp_specs # <<>> /\ nevra_forms # <<>>

\* line 91 with the test of the forms inverted
GroupsWithForm_NoForm == skipped_grp_specs # <<>> /\ nevra_forms = <<>>

\* line 91
GroupsWithForm == skipped_grp_specs # <<>> /\ nevra_forms # <<>>

\* line 95 without the test of the command
GroupsApply_AnyCommand == skipped_grp_specs # <<>>

\* line 95
GroupsApply == skipped_grp_specs # <<>> /\ ~IsLocalinstall

\* line 98 entered only when the file phase matched everything
PackagesApply_NoFileErrors == ~IsLocalinstall /\ err_pkgs = <<>>

\* line 98 without the test of the command
PackagesApply_Always == TRUE

\* line 98
PackagesApply == ~IsLocalinstall

\* line 101 without the test of strict
UnmatchedAndStrict_NoStrict == Len(errs) # 0 \/ Len(err_pkgs) # 0

\* line 101 without the test of err_pkgs
UnmatchedAndStrict_NoErrPkgs == Len(errs) # 0 /\ strict

\* line 101
UnmatchedAndStrict == (Len(errs) # 0 \/ Len(err_pkgs) # 0) /\ strict

\* The argument _install_groups hands to env_group_install (line 140)
GroupInstallArg(passed) == grp_specs

(***************************************************************************)
(* The engine's answers.  A target asked about twice gets the same answer. *)
(***************************************************************************)
Queued(kind) == {goal[i][2] : i \in {j \in 1..Len(goal) : goal[j][1] = kind}}

\* base.install(pkg_spec, ...): TRUE returns, FALSE raises MarkingError
InstallAnswers(pkg_spec) ==
    IF pkg_spec \in Range(packages_errs) THEN {FALSE}
    ELSE IF pkg_spec \in Queued("pkg") THEN {TRUE}
    ELSE BOOLEAN

\* base.package_install(pkg, ...): TRUE returns, FALSE raises MarkingError
PackageInstallAnswers(pkg) ==
    IF pkg \in Range(files_err_pkgs) THEN {FALSE}
    ELSE IF pkg.location \in Queued("file") THEN {TRUE}
    ELSE BOOLEAN

\* What base.add_remote_rpms returns for the files the engine could load
RemotePkgs(loaded) ==
    LET kept == SelectSeq(filenames, LAMBDA f : f \in loaded)
    IN  [i \in 1..Len(kept) |-> [location |-> kept[i]]]

\* The exception env_group_install raises, as the caller sees it
GroupError(e) == [type |-> e, raised_by |-> "env_group_install"]

Pairs(kind, items) == [i \in 1..Len(items) |-> <<kind, items[i]>>]

(***************************************************************************)
(* The order of the statements of run: the position that follows each one  *)
(* when it does not raise.                                                 *)
(***************************************************************************)
\* lines 80-96 with the group statement (91-96) placed before the file
\* statement (84-89)
After_GroupsBeforeFiles(stage) ==
    CASE stage = "run"                -> "localinstall_check"
      [] stage = "localinstall_check" -> "install_module"
      [] stage = "install_module"     -> "groups"
      [] stage = "groups"             -> "files"
      [] stage = "files"              -> "packages"
      [] stage = "packages"           -> "finalize"
      [] stage = "finalize"           -> "done"

After(stage) ==
    CASE stage = "run"                -> "localinstall_check"
      [] stage = "localinstall_check" -> "install_module"
      [] stage = "install_module"     -> "files"
      [] stage = "files"              -> "groups"
      [] stage = "groups"             -> "packages"
      [] stage = "packages"           -> "finalize"
      [] stage = "finalize"           -> "done"

(***************************************************************************)
(* Initial state: any request within the bounds, run not yet entered.      *)
(***************************************************************************)
Init ==
    /\ command \in {<<a>> : a \in aliases}
    /\ pkg_specs \in SeqsUpTo(PkgSpecNames, MaxPkgSpecs)
    /\ grp_specs \in SeqsUpTo(GrpSpecNames, MaxGrpSpecs)
    /\ filenames \in SeqsUpTo(FileNames, MaxFilenames)
    /\ strict \in BOOLEAN
    /\ pc = "run"
    /\ nevra_forms = <<>>
    /\ skipped_grp_specs = <<>>
    /\ err_pkgs = <<>>
    /\ errs = <<>>
    /\ remote_pkgs = <<>>
    /\ files_err_pkgs = <<>>
    /\ spec_idx = 1
    /\ packages_errs = <<>>
    /\ calls = <<>>
    /\ goal = <<>>
    /\ log = <<>>
    /\ raised = NoError

(***************************************************************************)
(* run, lines 69-74: the locals, the forms, the security filter.           *)
(***************************************************************************)
\* lines 69-74 applying the security filter only when the command is not
\* localinstall
RunEnter_FilterUnlessLocalinstall ==
    /\ pc = "run"
    /\ err_pkgs' = <<>>
    /\ errs' = <<>>
    /\ nevra_forms' = get_nevra_forms_from_command(command)
    /\ calls' = IF IsLocalinstall THEN calls
                ELSE Append(calls, [op |-> "_populate_update_security_filter"])
    /\ pc' = After("run")
    /\ UNCHANGED <<request, skipped_grp_specs, remote_pkgs, files_err_pkgs,
                   spec_idx, packages_errs, goal, log, raised>>

RunEnter ==
    /\ pc = "run"
    /\ err_pkgs' = <<>>
    /\ errs' = <<>>
    /\ nevra_forms' = get_nevra_forms_from_command(command)
    /\ calls' = Append(calls, [op |-> "_populate_update_security_filter"])
    /\ pc' = After("run")
    /\ UNCHANGED <<request, skipped_grp_specs, remote_pkgs, files_err_pkgs,
                   spec_idx, packages_errs, goal, log, raised>>

(***************************************************************************)
(* run, lines 75-78.                                                       *)
(***************************************************************************)
LocalinstallCheck ==
    /\ pc = "localinstall_check"
    /\ IF LocalinstallWithSpecs
       THEN /\ log' = log \o log_not_valid_rpm_file_paths(grp_specs)
            /\ IF RaiseOnLocalinstall
               THEN raised' = NothingToDo /\ pc' = "done"
               ELSE raised' = raised /\ pc' = After("localinstall_check")
       ELSE /\ log' = log
            /\ raised' = raised
            /\ pc' = After("localinstall_check")
    /\ UNCHANGED <<request, locals, calls, goal>>

(***************************************************************************)
(* run, lines 80-82: module resolution of the group specs.                 *)
(***************************************************************************)
InstallModule ==
    /\ pc = "install_module"
    /\ IF ModulesApply
       THEN \E skip \in SUBSET Range(grp_specs) :
              LET skipped == SelectSeq(grp_specs, LAMBDA g : g \in skip)
                  taken   == SelectSeq(grp_specs, LAMBDA g : g \notin skip)
              IN  /\ skipped_grp_specs' = skipped
                  /\ calls' = Append(calls, [op |-> "install_module",
                                             specs |-> grp_specs,
                                             skipped |-> skipped])
                  /\ goal' = goal \o Pairs("module", taken)
       ELSE /\ skipped_grp_specs' = grp_specs
            /\ UNCHANGED <<calls, goal>>
    /\ pc' = After("install_module")
    /\ UNCHANGED <<request, nevra_forms, err_pkgs, errs, remote_pkgs,
                   files_err_pkgs, spec_idx, packages_errs, log, raised>>

(***************************************************************************)
(* run, lines 84-89, and _install_files, lines 123-135.                    *)
(***************************************************************************)
FilesNotValidCombination ==
    /\ pc = "files"
    /\ FilesWithForm
    /\ log' = log \o inform_not_a_valid_combination(filenames)
    /\ IF RaiseOnFilesWithForm
       THEN raised' = NothingToDo /\ pc' = "done"
       ELSE raised' = raised /\ pc' = After("files")
    /\ UNCHANGED <<request, locals, calls, goal>>

\* lines 126-127 without the strict keyword, the engine's default applying
AddRemoteRpms_DefaultStrict ==
    /\ pc = "files"
    /\ ~FilesWithForm
    /\ files_err_pkgs' = <<>>
    /\ \E loaded \in SUBSET Range(filenames) :
          /\ remote_pkgs' = RemotePkgs(loaded)
          /\ calls' = Append(calls, [op |-> "add_remote_rpms",
                                     filenames |-> filenames,
                                     strict |-> TRUE,
                                     pkgs |-> RemotePkgs(loaded)])
    /\ pc' = "package_install"
    /\ UNCHANGED <<request, nevra_forms, skipped_grp_specs, err_pkgs, errs,
                   spec_idx, packages_errs, goal, log, raised>>

AddRemoteRpms ==
    /\ pc = "files"
    /\ ~FilesWithForm
    /\ files_err_pkgs' = <<>>
    /\ \E loaded \in SUBSET Range(filenames) :
          /\ remote_pkgs' = RemotePkgs(loaded)
          /\ calls' = Append(calls, [op |-> "add_remote_rpms",
                                     filenames |-> filenames,
                                     strict |-> strict,
                                     pkgs |-> RemotePkgs(loaded)])
    /\ pc' = "package_install"
    /\ UNCHANGED <<request, nevra_forms, skipped_grp_specs, err_pkgs, errs,
                   spec_idx, packages_errs, goal, log, raised>>

PackageInstall ==
    /\ pc = "package_install"
    /\ remote_pkgs # <<>>
    /\ LET pkg == Head(remote_pkgs)
       IN  \E ok \in PackageInstallAnswers(pkg) :
             /\ calls' = Append(calls, [op |-> "package_install",
                                        pkg |-> pkg,
                                        strict |-> strict,
                                        ok |-> ok])
             /\ IF ok
                THEN /\ goal' = Append(goal, <<"file", pkg.location>>)
                     /\ UNCHANGED <<log, files_err_pkgs>>
                ELSE /\ log' = Append(log, <<"info", "No match for argument: %s",
                                             pkg.location>>)
                     /\ files_err_pkgs' = Append(files_err_pkgs, pkg)
                     /\ goal' = goal
    /\ remote_pkgs' = Tail(remote_pkgs)
    /\ UNCHANGED <<request, nevra_forms, skipped_grp_specs, err_pkgs, errs,
                   spec_idx, packages_errs, pc, raised>>

InstallFilesReturn ==
    /\ pc = "package_install"
    /\ remote_pkgs = <<>>
    /\ err_pkgs' = files_err_pkgs
    /\ pc' = After("files")
    /\ UNCHANGED <<request, nevra_forms, skipped_grp_specs, errs, remote_pkgs,
                   files_err_pkgs, spec_idx, packages_errs, engine, raised>>

(***************************************************************************)
(* run, lines 91-96, and _install_groups, lines 137-145.                   *)
(***************************************************************************)
GroupsNotValidCombination ==
    /\ pc = "groups"
    /\ GroupsWithForm
    /\ log' = log \o inform_not_a_valid_combination(skipped_grp_specs)
    /\ IF RaiseOnGroupsWithForm
       THEN raised' = NothingToDo /\ pc' = "done"
       ELSE raised' = raised /\ pc' = After("groups")
    /\ UNCHANGED <<request, locals, calls, goal>>

InstallGroups ==
    /\ pc = "groups"
    /\ ~GroupsWithForm
    /\ GroupsApply
    /\ LET arg == GroupInstallArg(skipped_grp_specs)
           read == [op |-> "read_comps", arch_filter |-> TRUE]
       IN  \/ /\ calls' = calls \o <<read, [op |-> "env_group_install",
                                             specs |-> arg,
                                             strict |-> strict,
                                             raises |-> NoError]>>
              /\ goal' = goal \o Pairs("group", arg)
              /\ raised' = raised
              /\ pc' = After("groups")
           \/ \E e \in GroupErrors :
                /\ calls' = calls \o <<read, [op |-> "env_group_install",
                                               specs |-> arg,
                                               strict |-> strict,
                                               raises |-> GroupError(e)]>>
                /\ goal' = goal
                /\ IF ReraiseGroupError
                   THEN raised' = GroupError(e) /\ pc' = "done"
                   ELSE raised' = raised /\ pc' = After("groups")
    /\ UNCHANGED <<request, locals, log>>

GroupsSkip ==
    /\ pc = "groups"
    /\ ~GroupsWithForm
    /\ ~GroupsApply
    /\ pc' = After("groups")
    /\ UNCHANGED <<request, locals, engine, raised>>

(***************************************************************************)
(* run, lines 98-99, and _install_packages, lines 147-159.                 *)
(***************************************************************************)
PackagesEnter ==
    /\ pc = "packages"
    /\ IF PackagesApply
       THEN /\ packages_errs' = <<>>
            /\ spec_idx' = 1
            /\ pc' = "install"
       ELSE /\ UNCHANGED <<packages_errs, spec_idx>>
            /\ pc' = After("packages")
    /\ UNCHANGED <<request, nevra_forms, skipped_grp_specs, err_pkgs, errs,
                   remote_pkgs, files_err_pkgs, engine, raised>>

\* lines 150-157 leaving the loop at the first MarkingError
Install_StopAtFirstError ==
    /\ pc = "install"
    /\ spec_idx <= Len(pkg_specs)
    /\ LET pkg_spec == pkg_specs[spec_idx]
           call(ok) == [op |-> "install", pkg_spec |-> pkg_spec,
                        strict |-> strict, forms |-> nevra_forms, ok |-> ok]
       IN  \E ok \in InstallAnswers(pkg_spec) :
             IF ok
             THEN /\ calls' = Append(calls, call(ok))
                  /\ goal' = Append(goal, <<"pkg", pkg_spec>>)
                  /\ spec_idx' = spec_idx + 1
                  /\ UNCHANGED <<log, packages_errs>>
             ELSE /\ calls' = calls \o <<call(ok),
                                          [op |-> "_report_icase_hint",
                                           pkg_spec |-> pkg_spec]>>
                  /\ log' = Append(log, <<"info", "No package %s available.",
                                          pkg_spec>>)
                  /\ packages_errs' = Append(packages_errs, pkg_spec)
                  /\ spec_idx' = Len(pkg_specs) + 1
                  /\ goal' = goal
    /\ UNCHANGED <<request, nevra_forms, skipped_grp_specs, err_pkgs, errs,
                   remote_pkgs, files_err_pkgs, pc, raised>>

Install ==
    /\ pc = "install"
    /\ spec_idx <= Len(pkg_specs)
    /\ LET pkg_spec == pkg_specs[spec_idx]
           call(ok) == [op |-> "install", pkg_spec |-> pkg_spec,
                        strict |-> strict, forms |-> nevra_forms, ok |-> ok]
       IN  \E ok \in InstallAnswers(pkg_spec) :
             IF ok
             THEN /\ calls' = Append(calls, call(ok))
                  /\ goal' = Append(goal, <<"pkg", pkg_spec>>)
                  /\ UNCHANGED <<log, packages_errs>>
             ELSE /\ calls' = calls \o <<call(ok),
                                          [op |-> "_report_icase_hint",
                                           pkg_spec |-> pkg_spec]>>
                  /\ log' = Append(log, <<"info", "No package %s available.",
                                          pkg_spec>>)
                  /\ packages_errs' = Append(packages_errs, pkg_spec)
                  /\ goal' = goal
    /\ spec_idx' = spec_idx + 1
    /\ UNCHANGED <<request, nevra_forms, skipped_grp_specs, err_pkgs, errs,
                   remote_pkgs, files_err_pkgs, pc, raised>>

InstallPackagesReturn ==
    /\ pc = "install"
    /\ spec_idx > Len(pkg_specs)
    /\ errs' = packages_errs
    /\ pc' = After("packages")
    /\ UNCHANGED <<request, nevra_forms, skipped_grp_specs, err_pkgs,
                   remote_pkgs, files_err_pkgs, spec_idx, packages_errs,
                   engine, raised>>

(***************************************************************************)
(* run, lines 101-104.                                                     *)
(***************************************************************************)
Finalize ==
    /\ pc = "finalize"
    /\ raised' = IF UnmatchedAndStrict
                 THEN PackagesNotAvailable(errs, err_pkgs)
                 ELSE raised
    /\ pc' = After("finalize")
    /\ UNCHANGED <<request, locals, engine>>

Next ==
    \/ RunEnter
    \/ LocalinstallCheck
    \/ InstallModule
    \/ FilesNotValidCombination
    \/ AddRemoteRpms
    \/ PackageInstall
    \/ InstallFilesReturn
    \/ GroupsNotValidCombination
    \/ InstallGroups
    \/ GroupsSkip
    \/ PackagesEnter
    \/ Install
    \/ InstallPackagesReturn
    \/ Finalize

Spec == Init /\ [][Next]_vars

\* run leaves once it has started: the scheduling of a sequential program
FairSpec == Spec /\ WF_vars(Next)


(***************************************************************************)
(* Observations of a run, read from the record of the engine calls.        *)
(***************************************************************************)
CallsOf(ops) == SelectSeq(calls, LAMBDA c : c.op \in ops)

Done == pc = "done"

HasForm == get_nevra_forms_from_command(command) # <<>>

FileOps == {"add_remote_rpms", "package_install"}

\* The specs base.install was asked for, in call order
InstalledSpecs ==
    LET c == CallsOf({"install"}) IN [i \in 1..Len(c) |-> c[i].pkg_spec]

\* The specs for which base.install raised MarkingError, in call order
UnmatchedSpecs ==
    LET c == SelectSeq(CallsOf({"install"}), LAMBDA x : ~x.ok)
    IN  [i \in 1..Len(c) |-> c[i].pkg_spec]

\* The packages for which base.package_install raised MarkingError
UnmatchedPkgs ==
    LET c == SelectSeq(CallsOf({"package_install"}), LAMBDA x : ~x.ok)
    IN  [i \in 1..Len(c) |-> c[i].pkg]

\* The packages add_remote_rpms returned
ReturnedPkgs ==
    LET c == CallsOf({"add_remote_rpms"})
    IN  IF c = <<>> THEN <<>> ELSE c[1].pkgs

\* What install_module returned as skipped
ModuleSkipped ==
    LET c == CallsOf({"install_module"})
    IN  IF c = <<>> THEN <<>> ELSE c[1].skipped

FailedGroupCalls ==
    SelectSeq(CallsOf({"env_group_install"}), LAMBDA c : c.raises # NoError)

QueuedCount(kind) == Cardinality({i \in 1..Len(goal) : goal[i][1] = kind})

\* The enumerations of a set that name each element once
Enumerations(S) == {s \in [1..Cardinality(S) -> S] : Range(s) = S}

(***************************************************************************)
(* C1: a request with file paths and a NEVRA-form alias under strict never *)
(* reaches a file, classic-group or package-spec installation call, and    *)
(* when run has ended it has raised Error('Nothing to do.').               *)
(***************************************************************************)
C1_FilesWithFormStrict ==
    (filenames # <<>> /\ HasForm /\ strict) =>
        /\ CallsOf(FileOps \cup {"env_group_install", "install"}) = <<>>
        /\ pc \notin {"package_install", "groups", "packages", "install",
                      "finalize"}
        /\ Done => raised = NothingToDo

C1_Witness ==
    /\ Done /\ strict /\ filenames # <<>> /\ HasForm
    /\ grp_specs # <<>> /\ pkg_specs # <<>>
    /\ raised = NothingToDo

(***************************************************************************)
(* C2 as stated: group specs, a NEVRA form and strict always end in        *)
(* Error('Nothing to do.'), whatever install_module returned as skipped.   *)
(***************************************************************************)
C2_Original ==
    (Done /\ strict /\ grp_specs # <<>> /\ HasForm) => raised = NothingToDo

(***************************************************************************)
(* C2 amended: with group specs, a NEVRA form and strict, run raises       *)
(* Error('Nothing to do.') exactly when there are file paths or            *)
(* install_module returned a non-empty list of skipped specs; when it      *)
(* skipped nothing and there are no file paths no such error is raised.    *)
(***************************************************************************)
C2_GroupsWithFormStrict ==
    (Done /\ strict /\ grp_specs # <<>> /\ HasForm) =>
        (raised = NothingToDo <=> (filenames # <<>> \/ ModuleSkipped # <<>>))

C2_Witness ==
    /\ Done /\ strict /\ HasForm /\ filenames = <<>>
    /\ Len(grp_specs) = 2
    /\ Len(ModuleSkipped) = 1
    /\ raised = NothingToDo

(***************************************************************************)
(* C3 as stated: env_group_install receives exactly the group specs that   *)
(* install_module returned as skipped.                                     *)
(***************************************************************************)
C3_SkippedGroupsPassed ==
    \A i \in 1..Len(calls) :
        calls[i].op = "env_group_install" => calls[i].specs = ModuleSkipped

(***************************************************************************)
(* C4 as stated: the payload of PackagesNotAvailableError names every      *)
(* target unmatched in the file and package phases exactly once and no     *)
(* other target.                                                           *)
(***************************************************************************)
C4_PayloadExact ==
    raised.type = "PackagesNotAvailableError" =>
        /\ \E s \in Enumerations(Range(UnmatchedSpecs)) :
              raised.pkg_spec = JoinSpace(s)
        /\ raised.packages \in Enumerations(Range(UnmatchedPkgs))

(***************************************************************************)
(* C5: under strict=false run raises nothing, whatever the request and     *)
(* whatever the engine answered.                                           *)
(***************************************************************************)
C5_NonStrictNeverRaises == ~strict => raised = NoError

C5_Witness ==
    /\ Done /\ ~strict /\ raised = NoError
    /\ UnmatchedSpecs # <<>>
    /\ UnmatchedPkgs # <<>>
    /\ FailedGroupCalls # <<>>

(***************************************************************************)
(* C6: the step of lines 101-104 raises PackagesNotAvailableError exactly  *)
(* when strict is on and some base.install or package_install call raised  *)
(* MarkingError, and returns normally otherwise; it is the only step that  *)
(* raises this error; it makes no engine call, and when it is taken every  *)
(* package add_remote_rpms returned has been handed to package_install and *)
(* (unless localinstall) every package spec to base.install.               *)
(***************************************************************************)
C6_Finalization ==
    [][ /\ pc = "finalize" =>
            /\ pc' = "done"
            /\ calls' = calls /\ goal' = goal
            /\ raised'.type = "PackagesNotAvailableError"
                  <=> (strict /\ (UnmatchedSpecs # <<>> \/ UnmatchedPkgs # <<>>))
            /\ raised'.type # "PackagesNotAvailableError" => raised' = NoError
            /\ Len(CallsOf({"package_install"})) = Len(ReturnedPkgs)
            /\ ~IsLocalinstall => InstalledSpecs = pkg_specs
        /\ (raised'.type = "PackagesNotAvailableError" /\ raised = NoError)
              => pc = "finalize"
      ]_vars

C6_Witness ==
    /\ Done /\ raised.type = "PackagesNotAvailableError"
    /\ Len(CallsOf({"install"})) = 2
    /\ ~CallsOf({"install"})[1].ok
    /\ CallsOf({"install"})[2].ok
    /\ UnmatchedPkgs # <<>>
    /\ CallsOf({"env_group_install"}) # <<>>

(***************************************************************************)
(* C7: localinstall with a group spec under strict makes no file           *)
(* installation call, and when run has ended it has raised                 *)
(* Error('Nothing to do.').                                                *)
(***************************************************************************)
C7_LocalinstallGroupsStrict ==
    (IsLocalinstall /\ grp_specs # <<>> /\ strict) =>
        /\ CallsOf(FileOps) = <<>>
        /\ pc \notin {"install_module", "files", "package_install"}
        /\ Done => raised = NothingToDo

C7_Witness ==
    /\ Done /\ IsLocalinstall /\ strict
    /\ grp_specs # <<>> /\ pkg_specs = <<>> /\ filenames # <<>>
    /\ raised = NothingToDo

(***************************************************************************)
(* C8 as stated: under strict=false a run with N package specs returns     *)
(* normally with base.install called once for each of them and N-M of them *)
(* queued, M being the number of MarkingError outcomes.                    *)
(***************************************************************************)
C8_Original ==
    (Done /\ ~strict) =>
        /\ raised = NoError
        /\ InstalledSpecs = pkg_specs
        /\ QueuedCount("pkg") + Len(UnmatchedSpecs) = Len(pkg_specs)

(***************************************************************************)
(* C8 amended: under strict=false a run returns normally; when the command *)
(* is not localinstall base.install is called once for each of the N       *)
(* package specs, in order, and exactly N-M of them are queued, M being the*)
(* number of MarkingError outcomes; under localinstall base.install is not *)
(* called and no package spec is queued.                                   *)
(***************************************************************************)
C8_PartialTolerance ==
    (Done /\ ~strict) =>
        /\ raised = NoError
        /\ ~IsLocalinstall =>
              /\ InstalledSpecs = pkg_specs
              /\ QueuedCount("pkg") + Len(UnmatchedSpecs) = Len(pkg_specs)
              /\ errs = UnmatchedSpecs
        /\ IsLocalinstall =>
              /\ InstalledSpecs = <<>>
              /\ QueuedCount("pkg") = 0

C8_Witness ==
    /\ Done /\ ~strict /\ ~IsLocalinstall /\ raised = NoError
    /\ Len(pkg_specs) = 2
    /\ Len(UnmatchedSpecs) = 1
    /\ QueuedCount("pkg") = 1
    /\ ~CallsOf({"install"})[1].ok

(***************************************************************************)
(* C9 as stated: when run raises Error('Nothing to do.') it has made none  *)
(* of install_module, add_remote_rpms, package_install, env_group_install  *)
(* and base.install.                                                       *)
(***************************************************************************)
C9_Original ==
    raised = NothingToDo =>
        CallsOf(FileOps \cup {"install_module", "env_group_install",
                              "install"}) = <<>>

(***************************************************************************)
(* C9 amended: when run raises Error('Nothing to do.') it has made no      *)
(* package_install, env_group_install or base.install call and has handed  *)
(* no file to add_remote_rpms (which is called with an empty list at       *)
(* most); install_module, whose result decides the group conflict, may     *)
(* have run and queued modules, and nothing else is queued.                *)
(***************************************************************************)
C9_NothingToDoBeforeInstalls ==
    raised = NothingToDo =>
        /\ CallsOf({"package_install", "env_group_install", "install"}) = <<>>
        /\ \A i \in 1..Len(calls) :
              calls[i].op = "add_remote_rpms" => calls[i].filenames = <<>>
        /\ \A i \in 1..Len(goal) : goal[i][1] = "module"

C9_Witness ==
    /\ raised = NothingToDo
    /\ CallsOf({"install_module"}) # <<>>
    /\ CallsOf({"add_remote_rpms"}) # <<>>
    /\ QueuedCount("module") > 0

(***************************************************************************)
(* C10: when env_group_install raises, run ends with that same error if    *)
(* strict is on, with no engine call after it; if strict is off nothing is *)
(* raised, errs and err_pkgs hold only what base.install and               *)
(* package_install failed to match, and base.install is still called for   *)
(* every package spec.  A group error ends run only this way.              *)
(***************************************************************************)
C10_GroupErrorIffStrict ==
    /\ \A i \in 1..Len(calls) :
          (calls[i].op = "env_group_install" /\ calls[i].raises # NoError) =>
              IF strict
              THEN Done /\ raised = calls[i].raises /\ i = Len(calls)
              ELSE /\ raised = NoError
                   /\ pc \in {"packages", "install", "finalize", "done"}
                   /\ pc \in {"finalize", "done"} =>
                         /\ InstalledSpecs = pkg_specs
                         /\ errs = UnmatchedSpecs
                         /\ err_pkgs = UnmatchedPkgs
    /\ raised.type \in GroupErrors =>
          /\ strict
          /\ FailedGroupCalls # <<>>
          /\ raised = FailedGroupCalls[1].raises

C10_Witness ==
    /\ Done /\ ~strict /\ raised = NoError
    /\ FailedGroupCalls # <<>>
    /\ Len(CallsOf({"install"})) = 2
    /\ UnmatchedSpecs = <<>>

(***************************************************************************)
(* C11 as stated: a run of a command other than localinstall that does not *)
(* raise Error('Nothing to do.') calls base.install for every package spec,*)
(* whatever the file and group phases did, under both values of strict.    *)
(***************************************************************************)
C11_Original ==
    (Done /\ ~IsLocalinstall /\ raised # NothingToDo) =>
        InstalledSpecs = pkg_specs

(***************************************************************************)
(* C11 amended: a run of a command other than localinstall that raises     *)
(* neither Error('Nothing to do.') nor, under strict, the error of         *)
(* env_group_install calls base.install for every package spec, in order,  *)
(* whatever package_install answered and, under strict=false, whatever     *)
(* env_group_install answered.                                             *)
(***************************************************************************)
C11_LaterPhasesRun ==
    (Done /\ ~IsLocalinstall /\ raised # NothingToDo
          /\ raised.type \notin GroupErrors) =>
        InstalledSpecs = pkg_specs

C11_Witness ==
    /\ Done /\ ~IsLocalinstall /\ ~strict
    /\ UnmatchedPkgs # <<>>
    /\ FailedGroupCalls # <<>>
    /\ Len(pkg_specs) = 2
    /\ InstalledSpecs = pkg_specs

(***************************************************************************)
(* C12: the engine calls of a run are ordered by phase: the security       *)
(* filter, then install_module, then file installation (add_remote_rpms,   *)
(* package_install), then classic group installation (read_comps,          *)
(* env_group_install), then package-spec installation (install,            *)
(* _report_icase_hint); no call of a phase follows a call of a later       *)
(* phase, and install_module, add_remote_rpms and env_group_install are    *)
(* called once at most, each being the call that opens its phase (with     *)
(* read_comps right before env_group_install).                             *)
(***************************************************************************)
PhaseOf(op) ==
    CASE op = "_populate_update_security_filter"    -> 0
      [] op = "install_module"                      -> 1
      [] op \in {"add_remote_rpms", "package_install"} -> 2
      [] op \in {"read_comps", "env_group_install"} -> 3
      [] op \in {"install", "_report_icase_hint"}   -> 4

C12_PhaseOrder ==
    /\ \A i \in 1..(Len(calls) - 1) :
          /\ PhaseOf(calls[i].op) <= PhaseOf(calls[i+1].op)
          /\ calls[i+1].op \in {"install_module", "add_remote_rpms",
                                "read_comps"}
                => PhaseOf(calls[i].op) < PhaseOf(calls[i+1].op)
          /\ calls[i+1].op = "env_group_install" => calls[i].op = "read_comps"
          /\ calls[i+1].op = "package_install" => calls[i].op \in FileOps

C12_Witness ==
    /\ Done
    /\ CallsOf({"install_module"}) # <<>>
    /\ CallsOf({"package_install"}) # <<>>
    /\ CallsOf({"env_group_install"}) # <<>>
    /\ Len(CallsOf({"install"})) = 2

(***************************************************************************)
(* C13: once run has entered, the security filter has been applied exactly *)
(* once and is the first engine call; before that no engine call has been  *)
(* made and nothing has been raised, so every raise follows it.            *)
(***************************************************************************)
C13_SecurityFilterFirst ==
    /\ pc = "run" => (calls = <<>> /\ raised = NoError)
    /\ pc # "run" =>
          /\ calls # <<>>
          /\ calls[1].op = "_populate_update_security_filter"
          /\ Len(CallsOf({"_populate_update_security_filter"})) = 1

C13_Witness ==
    /\ Done /\ raised = NothingToDo /\ IsLocalinstall
    /\ calls = <<[op |-> "_populate_update_security_filter"]>>

(***************************************************************************)
(* C14: when the command is exactly localinstall, run never calls          *)
(* install_module, env_group_install (nor read_comps) or base.install,     *)
(* whatever the group specs, package specs and strictness; only files are  *)
(* queued.                                                                 *)
(***************************************************************************)
C14_LocalinstallFilesOnly ==
    IsLocalinstall =>
        /\ CallsOf({"install_module", "read_comps", "env_group_install",
                    "install", "_report_icase_hint"}) = <<>>
        /\ \A i \in 1..Len(goal) : goal[i][1] = "file"
        /\ pc # "install"

C14_Witness ==
    /\ Done /\ IsLocalinstall /\ ~strict
    /\ grp_specs # <<>> /\ pkg_specs # <<>>
    /\ QueuedCount("file") > 0

(***************************************************************************)
(* C15: with file paths and a detected NEVRA form under strict=false,      *)
(* add_remote_rpms and package_install are never called, no file target is *)
(* recorded as unmatched or queued, and run goes on past the group         *)
(* statement to the package phase: when it has ended it has returned       *)
(* normally, base.install has been called for every package spec with the  *)
(* detected forms, and errs holds what those calls failed to match.        *)
(***************************************************************************)
C15_FilesWithFormNonStrict ==
    (filenames # <<>> /\ HasForm /\ ~strict) =>
        /\ CallsOf(FileOps) = <<>>
        /\ err_pkgs = <<>> /\ files_err_pkgs = <<>>
        /\ QueuedCount("file") = 0
        /\ pc # "package_install"
        /\ raised = NoError
        /\ Done =>
              /\ InstalledSpecs = pkg_specs
              /\ errs = UnmatchedSpecs
              /\ \A i \in 1..Len(calls) :
                    calls[i].op = "install" =>
                        calls[i].forms = get_nevra_forms_from_command(command)

C15_Witness ==
    /\ Done /\ ~strict /\ filenames # <<>> /\ HasForm
    /\ ModuleSkipped # <<>>
    /\ Len(pkg_specs) = 2
    /\ Len(UnmatchedSpecs) = 1
    /\ raised = NoError

(***************************************************************************)
(* C16: under strict=true an unmatched package spec does not end the       *)
(* package phase: nothing is raised while the specs are being installed,   *)
(* and when run has ended base.install has been called once for every      *)
(* package spec, in request order, each time with the request's strict and *)
(* the detected forms, and PackagesNotAvailableError has been raised with  *)
(* pkg_spec joining exactly the unmatched specs in request order.          *)
(***************************************************************************)
C16_StrictPackagesAllTried ==
    (strict /\ UnmatchedSpecs # <<>>) =>
        /\ pc \in {"install", "finalize", "done"}
        /\ ~Done => raised = NoError
        /\ Done =>
              /\ InstalledSpecs = pkg_specs
              /\ \A i \in 1..Len(calls) :
                    calls[i].op = "install" =>
                        /\ calls[i].strict = strict
                        /\ calls[i].forms = get_nevra_forms_from_command(command)
              /\ raised.type = "PackagesNotAvailableError"
              /\ raised.pkg_spec = JoinSpace(UnmatchedSpecs)

C16_Witness ==
    /\ Done /\ strict
    /\ pkg_specs = <<"doesnotexist123", "vim">>
    /\ UnmatchedSpecs = <<"doesnotexist123">>
    /\ InstalledSpecs = pkg_specs
    /\ raised.type = "PackagesNotAvailableError"
    /\ raised.pkg_spec = "doesnotexist123"

(***************************************************************************)
(* C17: no step of run changes the command, pkg_specs, grp_specs,          *)
(* filenames or strict, and every call of add_remote_rpms, package_install,*)
(* env_group_install and base.install carries the request's strict.        *)
(***************************************************************************)
StrictOps == {"add_remote_rpms", "package_install", "env_group_install",
              "install"}

C17_RequestUnchanged ==
    [][ /\ request' = request
        /\ \A i \in 1..Len(calls') :
              calls'[i].op \in StrictOps => calls'[i].strict = strict
      ]_vars

C17_Witness ==
    /\ Done /\ ~strict
    /\ \A op \in StrictOps : CallsOf({op}) # <<>>
    /\ skipped_grp_specs = grp_specs

(***************************************************************************)
(* C18: every run ends, and it ends in one of four ways: a normal return,  *)
(* Error('Nothing to do.'), the error env_group_install raised, or         *)
(* PackagesNotAvailableError built from errs and err_pkgs; an error is     *)
(* raised only under strict and only as the last step of run.              *)
(***************************************************************************)
C18_Termination ==
    /\ <>Done
    /\ [](Done =>
            \/ raised = NoError
            \/ raised = NothingToDo
            \/ /\ raised.type \in GroupErrors
               /\ FailedGroupCalls # <<>>
               /\ raised = FailedGroupCalls[1].raises
            \/ raised = PackagesNotAvailable(errs, err_pkgs))
    /\ [](raised # NoError => (strict /\ Done))

C18_Witness ==
    /\ Done /\ strict
    /\ raised.type \in GroupErrors
    /\ pkg_specs # <<>> /\ filenames # <<>>

=============================================================================
